---- MODULE Spec2Model ----
(***************************************************************************)
(* Model of the offline score-recomputation core of minerva:               *)
(*   retrieval/stored_formula.py   StoredFormula (parse + recompute)       *)
(*   evaluation/weight_training.py WeightTrainer (rescoring of             *)
(*                                 precomputed results)                    *)
(* Floating-point scores are modelled as integers; Python dicts as         *)
(* functions whose DOMAIN is the set of keys; a raised exception as an     *)
(* outcome record.                                                         *)
(***************************************************************************)
EXTENDS Integers, Sequences, FiniteSets, TLC

\* ------------------------------------------------------------------ bounds
\* largest number of parts of a "sum of"/"product of"/"max of" node
MaxParts == 2
\* field weights range over 0..MaxWeight
MaxWeight == 2

Fields == {"title", "text"}
Terms == {"foo", "bar"}
FieldWeightValues == 0..MaxWeight
TermWeightValues == {2}

\* ------------------------------------------------------- python primitives
TERM_POSITION_IN_TUPLE == 6

\* Python's None in an integer slot of a hit tuple
NoneValue == 0 - 1

\* truth value of a dict (None is modelled as the empty dict: both are falsy)
Truthy(d) == DOMAIN d # {}

\* dict.get(k, default)
DictGet(d, k, default) == IF k \in DOMAIN d THEN d[k] ELSE default

\* part[k] with Python's 0-based index
Item(t, k) == t[k + 1]

EmptyDict == [k \in {} |-> 0]

\* d[k] = v
DictSet(d, k, v) == [x \in DOMAIN d \cup {k} |-> IF x = k THEN v ELSE d[x]]

SeqsUpTo(S, n) == UNION {[1..k -> S] : k \in 1..n}

\* outcome of a call: a returned value or a raised exception
Return(v) == [kind |-> "return", value |-> v, error |-> ""]
Raise(e) == [kind |-> "raise", value |-> 0, error |-> e]
NoOutcome == [kind |-> "none", value |-> 0, error |-> ""]

\* ---------------------------------------------------------- formula nodes
\* A node of StoredFormula.formula.  pytype is the Python type of the node
\* ("tuple" for a hit, "dict" otherwise), keys the keys of a dict node.
TupleNode(t) ==
    [pytype |-> "tuple", tuple |-> t, keys |-> {}, type |-> "", value |-> 0,
     parts |-> <<>>]

PartsNode(type, parts) ==
    [pytype |-> "dict", tuple |-> <<>>, keys |-> {"type", "parts"},
     type |-> type, value |-> 0, parts |-> parts]

ValueNode(type, value) ==
    [pytype |-> "dict", tuple |-> <<>>, keys |-> {"type", "value"},
     type |-> type, value |-> value, parts |-> <<>>]

\* {"coord": 0, "matches": []}, stored for an explanation that did not match
UnmatchedFormula ==
    [pytype |-> "dict", tuple |-> <<>>, keys |-> {"coord", "matches"},
     type |-> "", value |-> 0, parts |-> <<>>]

\* {} : the formula of a StoredFormula constructed without one
EmptyFormula ==
    [pytype |-> "dict", tuple |-> <<>>, keys |-> {},
     type |-> "", value |-> 0, parts |-> <<>>]

\* ------------------------------------------------------ elastic explanation
\* One node of an explanation.  desc is the prefix that the parser tests the
\* description for; field/term, docFreq/maxDocs and freq are the groups that
\* its regular expressions capture from the description.
Detail(desc, field, term, value, docFreq, maxDocs, freq, details) ==
    [desc |-> desc, field |-> field, term |-> term, value |-> value,
     docFreq |-> docFreq, maxDocs |-> maxDocs, freq |-> freq,
     details |-> details]

Plain(desc, value, details) == Detail(desc, "", "", value, 0, 0, 0, details)

IdfDetail == Detail("idf", "", "", 1, 2, 5, 0, <<>>)
TfDetail == Detail("tf", "", "", 1, 0, 0, 1, <<>>)
FieldNormDetail == Plain("fieldNorm", 1, <<>>)
QueryNormDetail == Plain("queryNorm", 1, <<>>)

FieldWeightDetail(fw) ==
    Plain("fieldWeight", fw, <<TfDetail, IdfDetail, FieldNormDetail>>)

QueryWeightDetail(qw) ==
    Plain("queryWeight", qw, <<IdfDetail, QueryNormDetail>>)

\* weight(field:term in doc), result of: fieldWeight  (queryWeight is 1)
FieldWeightLeaf(field, term, fw) ==
    Detail("weight", field, term, fw, 0, 0, 0, <<FieldWeightDetail(fw)>>)

\* weight(field:term in doc), result of: score, product of: queryWeight, fieldWeight
ScoreLeaf(field, term, qw, fw) ==
    Detail("weight", field, term, qw * fw, 0, 0, 0,
           <<Plain("score", qw * fw,
                   <<QueryWeightDetail(qw), FieldWeightDetail(fw)>>)>>)

CoordLeaf(v) == Plain("coord", v, <<>>)
RequiredClauseLeaf(v) == Plain("match on required clause, product of", v, <<>>)

RECURSIVE SumSeq(_)
SumSeq(s) == IF s = <<>> THEN 0 ELSE Head(s) + SumSeq(Tail(s))

RECURSIVE ProdSeq(_)
ProdSeq(s) == IF Len(s) = 1 THEN s[1] ELSE s[1] * ProdSeq(Tail(s))

RECURSIVE MaxSeq(_)
MaxSeq(s) ==
    IF Len(s) = 1 THEN s[1]
    ELSE LET m == MaxSeq(Tail(s)) IN IF s[1] >= m THEN s[1] ELSE m

\* the value a search engine reports for a combining node
ConsistentValue(desc, details) ==
    LET vs == [i \in 1..Len(details) |-> details[i].value] IN
    CASE desc = "sum of" -> SumSeq(vs)
      [] desc = "product of" -> ProdSeq(vs)
      [] desc = "max of" -> MaxSeq(vs)

Combine(desc, details) == Plain(desc, ConsistentValue(desc, details), details)

WeightLeaves ==
    {FieldWeightLeaf("title", "foo", 2), FieldWeightLeaf("text", "bar", 3),
     ScoreLeaf("text", "foo", 2, 3), ScoreLeaf("title", "bar", 3, 1)}

CombineDescs == {"sum of", "product of", "max of"}

Level1 == {Combine(d, ps) : d \in CombineDescs, ps \in SeqsUpTo(WeightLeaves, MaxParts)}

Level2 == {Combine("product of", <<e, CoordLeaf(2)>>) : e \in {x \in Level1 : x.desc = "sum of"}}

\* descriptions that none of the parser's tests recognise
UnknownDescs == {"ConstantScore", "function score, product of"}

UnknownLeaf(desc) == Plain(desc, 1, <<>>)

\* explanations with such a node at the root, under a combining node, and two levels down
UnknownDetails ==
    {UnknownLeaf(d) : d \in UnknownDescs}
        \cup {Combine(c, <<FieldWeightLeaf("title", "foo", 2), UnknownLeaf("ConstantScore")>>) :
                 c \in CombineDescs}
        \cup {Combine("product of",
                      <<Combine("sum of", <<UnknownLeaf("function score, product of")>>),
                        CoordLeaf(2)>>)}

MatchedDetails ==
    WeightLeaves \cup {CoordLeaf(2), RequiredClauseLeaf(1)} \cup Level1 \cup Level2
        \cup UnknownDetails

UnmatchedExplanation == [matched |-> FALSE, explanation |-> Plain("no matching term", 0, <<>>)]

NoExplanation == [matched |-> FALSE, explanation |-> Plain("", 0, <<>>)]

Explanations ==
    {[matched |-> TRUE, explanation |-> d] : d \in MatchedDetails}
        \cup {UnmatchedExplanation}

\* the nodes of an explanation that make up the formula tree: the root and,
\* below a combining node, the nodes of its details
RECURSIVE FormulaDetails(_)
FormulaDetails(detail) ==
    {detail} \cup
        IF detail.desc \in CombineDescs
        THEN UNION {FormulaDetails(detail.details[i]) : i \in 1..Len(detail.details)}
        ELSE {}

RecognisedDescs ==
    {"coord", "sum of", "product of", "max of", "weight", "match on required clause, product of"}

HasUnknownNode(e) ==
    e.matched /\ \E d \in FormulaDetails(e.explanation) : d.desc \notin RecognisedDescs

\* ------------------------------------------- StoredFormula.fromElasticExplanation
\* the tf / docFreq / maxDocs scan over the elements of a score node
FirstWith(details, desc) ==
    LET hits == {i \in 1..Len(details) : details[i].desc = desc} IN
    IF hits = {} THEN 0 ELSE CHOOSE i \in hits : \A j \in hits : i <= j

RECURSIVE ScanElements(_, _, _)
ScanElements(elements, i, acc) ==
    IF i > Len(elements) THEN acc
    ELSE IF acc.docFreq > 0 /\ acc.tf > 0 THEN acc
    ELSE
        LET ds == elements[i].details
            idf == FirstWith(ds, "idf")
            tf == FirstWith(ds, "tf")
            a1 == IF idf = 0 THEN acc
                  ELSE [acc EXCEPT !.docFreq = ds[idf].docFreq,
                                   !.maxDocs = ds[idf].maxDocs]
            a2 == IF tf = 0 THEN a1 ELSE [a1 EXCEPT !.tf = ds[tf].freq]
        IN  ScanElements(elements, i + 1, a2)

\* the hit tuple stored for a leaf whose first detail is a fieldWeight
FieldWeightHit(field_name, term, elem, save_terms) ==
    IF save_terms THEN <<field_name, 1, elem.value, term>>
    ELSE <<field_name, 1, elem.value>>

\* the hit tuple stored for a leaf whose first detail has queryWeight and fieldWeight
QueryWeightHit(field_name, term, elem, save_terms) ==
    LET elements == elem.details
        qw == elements[1].value
        fw == elements[2].value
        found == ScanElements(elements, 1,
                     [tf |-> NoneValue, docFreq |-> NoneValue, maxDocs |-> NoneValue])
    IN  IF save_terms
        THEN <<field_name, qw, fw, found.tf, found.docFreq, found.maxDocs, term>>
        ELSE <<field_name, qw, fw, found.tf, found.docFreq, found.maxDocs>>

\* CombineType with "max of" stored as a sum
CombineTypeMut(desc) ==
    CASE desc = "sum of" -> "+"
      [] desc = "product of" -> "*"
      [] desc = "max of" -> "+"

\* the dict type stored for a combining description
CombineType(desc) ==
    CASE desc = "sum of" -> "+"
      [] desc = "product of" -> "*"
      [] desc = "max of" -> "max"

\* first raised outcome of a list of outcomes, in list order (NoOutcome if none)
FirstRaise(outs) ==
    LET bad == {i \in 1..Len(outs) : outs[i].kind = "raise"} IN
    IF bad = {} THEN NoOutcome
    ELSE outs[CHOOSE i \in bad : \A j \in bad : i <= j]

RECURSIVE iterateDetail(_, _)
iterateDetail(detail, save_terms) ==
    IF detail.desc = "coord" THEN Return(ValueNode("coord", detail.value))
    ELSE IF detail.desc \in {"sum of", "product of", "max of"} THEN
        LET subs == [i \in 1..Len(detail.details) |->
                        iterateDetail(detail.details[i], save_terms)]
            bad == FirstRaise(subs)
        IN  IF bad.kind = "raise" THEN bad
            ELSE Return(PartsNode(CombineType(detail.desc),
                                  [i \in 1..Len(subs) |-> subs[i].value]))
    ELSE IF detail.desc = "weight" THEN
        LET elem == detail.details[1] IN
        IF elem.desc = "fieldWeight"
        THEN Return(TupleNode(FieldWeightHit(detail.field, detail.term, elem, save_terms)))
        ELSE Return(TupleNode(QueryWeightHit(detail.field, detail.term, elem, save_terms)))
    ELSE IF detail.desc = "match on required clause, product of"
    THEN Return(ValueNode("const", detail.value))
    ELSE Raise("UnboundLocalError")

\* ParsedFormula storing the formula of an unmatched explanation when the parse fails
ParsedFormulaMut(old, explanation, save_terms) ==
    IF ~explanation.matched THEN UnmatchedFormula
    ELSE LET r == iterateDetail(explanation.explanation, save_terms) IN
         IF r.kind = "return" THEN r.value ELSE UnmatchedFormula

\* the formula held after fromElasticExplanation(explanation, save_terms),
\* given the one held before
ParsedFormula(old, explanation, save_terms) ==
    IF ~explanation.matched THEN UnmatchedFormula
    ELSE LET r == iterateDetail(explanation.explanation, save_terms) IN
         IF r.kind = "return" THEN r.value ELSE old

\* what the call fromElasticExplanation(explanation, save_terms) ends with:
\* the exception of iterateDetail, or nothing (the method returns None)
ParseOutcome(explanation, save_terms) ==
    IF ~explanation.matched THEN NoOutcome
    ELSE LET r == iterateDetail(explanation.explanation, save_terms) IN
         IF r.kind = "raise" THEN r ELSE NoOutcome

\* --------------------------------------------------- StoredFormula.computeScore
\* HitScore without the field multiplier
HitScoreMut(query_weight, field_multiplier, fw) == query_weight * fw

\* qw * param * fw
HitScore(query_weight, field_multiplier, fw) == query_weight * field_multiplier * fw

\* CombineScores with the "max" branch falling through to the sum
CombineScoresMut(type, scores) ==
    CASE type = "*" ->
            IF scores = <<>> THEN Raise("TypeError") ELSE Return(ProdSeq(scores))
      [] type \in {"+", "max"} -> Return(SumSeq(scores))

CombineScores(type, scores) ==
    CASE type = "*" ->
            IF scores = <<>> THEN Raise("TypeError") ELSE Return(ProdSeq(scores))
      [] type = "+" -> Return(SumSeq(scores))
      [] type = "max" ->
            IF scores = <<>> THEN Raise("ValueError: max() arg is an empty sequence")
            ELSE Return(MaxSeq(scores))

MissingTerm == "ValueError: Record missing 4th parameter: <term>"

HitOutcome(part, field_parameters, kw_parameters) ==
    IF Truthy(field_parameters) /\ Item(part, 0) \notin DOMAIN field_parameters
    THEN Raise("KeyError")
    ELSE
        LET field_multiplier ==
                IF Truthy(field_parameters) THEN field_parameters[Item(part, 0)] ELSE 1
        IN  IF Truthy(kw_parameters) THEN
                IF Len(part) <= 3 THEN Raise(MissingTerm)
                ELSE IF TERM_POSITION_IN_TUPLE >= Len(part) THEN Raise("IndexError")
                ELSE Return(HitScore(
                         DictGet(kw_parameters, Item(part, TERM_POSITION_IN_TUPLE), 0)
                             * Item(part, 1),
                         field_multiplier, Item(part, 2)))
            ELSE Return(HitScore(Item(part, 1), field_multiplier, Item(part, 2)))

RECURSIVE computeScore(_, _, _)
computeScore(part, field_parameters, kw_parameters) ==
    IF part.pytype = "tuple"
    THEN HitOutcome(part.tuple, field_parameters, kw_parameters)
    ELSE IF part.pytype = "dict" THEN
        IF "type" \notin part.keys THEN Raise("KeyError")
        ELSE IF part.type \in {"*", "+", "max"} THEN
            LET outs == [i \in 1..Len(part.parts) |->
                            computeScore(part.parts[i], field_parameters, kw_parameters)]
                bad == FirstRaise(outs)
            IN  IF bad.kind = "raise" THEN bad
                ELSE CombineScores(part.type, [i \in 1..Len(outs) |-> outs[i].value])
        ELSE IF part.type \in {"const", "coord"} THEN Return(part.value)
        ELSE Raise("ValueError: Unexpected operation type")
    ELSE Raise("ValueError: Unexpected type")

\* ------------------------------------- precomputed results and their rescoring
\* largest number of precomputed results (queries) in a result list
MaxResults == 2

\* the score unit: a metric value of 1.0 is modelled as Scale
Scale == 60

\* 1000 / log2(i + 1), the discount of rank i
DiscountTable == <<1000, 631, 500, 431, 387, 356, 333, 315>>

Method == "method1"

Candidate(guid, f) == [guid |-> guid, formula |-> f]

\* one precomputed result: the candidates of one query with their formulas
PrecomputedResult(citation_id, query_method, has_formulas, formulas, match_guids, citation_multi) ==
    [citation_id |-> citation_id, query_method |-> query_method,
     has_formulas |-> has_formulas, formulas |-> formulas,
     match_guids |-> match_guids, citation_multi |-> citation_multi]

TitleHit == TupleNode(<<"title", 1, 3>>)
TextHit == TupleNode(<<"text", 1, 2>>)
BothHit == PartsNode("+", <<TupleNode(<<"title", 1, 1>>), TupleNode(<<"text", 1, 1>>)>>)

ThreeCandidates == <<Candidate("g1", TitleHit), Candidate("g2", TextHit), Candidate("g3", BothHit)>>

Results ==
    {PrecomputedResult("c0", "qm1", FALSE, <<>>, {"g1"}, 1),
     PrecomputedResult("c1", "qm1", TRUE, <<>>, {"g1"}, 1),
     PrecomputedResult("c2", "qm1", TRUE, ThreeCandidates, {"g2"}, 1),
     PrecomputedResult("c3", "qm1", TRUE, ThreeCandidates, {"g2", "g3"}, 2),
     PrecomputedResult("c4", "qm2", TRUE, ThreeCandidates, {"g9"}, 1),
     PrecomputedResult("c5", "qm2", TRUE, <<Candidate("g2", TextHit), Candidate("g1", TitleHit)>>, {"g1"}, 1)}

ResultLists == SeqsUpTo(Results, MaxResults)

\* {x: 1 for x in runtime_parameters}
UniformWeights == [f \in Fields |-> 1]

\* runPrecomputedQuery: recompute every candidate, sort by score, best first;
\* list.sort is stable, so equal scores keep their input order
InsertStable(sorted, x) ==
    LET ahead == {i \in 1..Len(sorted) : sorted[i].score >= x.score}
        k == Cardinality(ahead)
    IN  SubSeq(sorted, 1, k) \o <<x>> \o SubSeq(sorted, k + 1, Len(sorted))

RECURSIVE SortedByScore(_)
SortedByScore(scores) ==
    IF scores = <<>> THEN <<>>
    ELSE InsertStable(SortedByScore(SubSeq(scores, 1, Len(scores) - 1)), scores[Len(scores)])

runPrecomputedQuery(formulas, parameters) ==
    LET outs == [i \in 1..Len(formulas) |-> computeScore(formulas[i].formula, parameters, EmptyDict)]
        bad == FirstRaise(outs)
    IN  IF bad.kind = "raise" THEN bad
        ELSE Return(SortedByScore([i \in 1..Len(formulas) |->
                        [score |-> outs[i].value, guid |-> formulas[i].guid]]))

\* the part of result_dict that the metrics are written to
ResultDict(result, mrr_score, precision_score, ndcg_score, rank, first_result) ==
    [citation_id |-> result.citation_id, query_method |-> result.query_method,
     doc_method |-> Method, mrr_score |-> mrr_score,
     precision_score |-> precision_score, ndcg_score |-> ndcg_score,
     rank |-> rank, first_result |-> first_result]

\* the result_dict of a query without candidates
EmptyQueryDict(result) == ResultDict(result, 0, 0, 0, 0, "")

\* ResultsLogger.measureScoreAndLog: rank of the first correct candidate and
\* the metrics derived from it
FirstRelevant(retrieved, match_guids) ==
    LET hits == {i \in 1..Len(retrieved) : retrieved[i].guid \in match_guids} IN
    IF hits = {} THEN 0 ELSE CHOOSE i \in hits : \A j \in hits : i <= j

RECURSIVE SumOver(_, _)
SumOver(S, f) ==
    IF S = {} THEN 0
    ELSE LET x == CHOOSE y \in S : TRUE IN f[x] + SumOver(S \ {x}, f)

Min(a, b) == IF a <= b THEN a ELSE b

MeasuredDict(result, retrieved) ==
    LET rank == FirstRelevant(retrieved, result.match_guids)
        multi == result.citation_multi
        relevant == {i \in 1..Len(retrieved) : retrieved[i].guid \in result.match_guids}
        dcg == SumOver(relevant, DiscountTable)
        idcg == SumOver(1..Min(multi, Cardinality(relevant)), DiscountTable)
        in_top == Cardinality({i \in relevant : i <= multi})
    IN  IF rank = 0 THEN ResultDict(result, 0, 0, 0, 0, retrieved[1].guid)
        ELSE ResultDict(result, Scale \div rank, (Scale * in_top) \div multi,
                        (Scale * dcg) \div idcg, rank, retrieved[1].guid)

\* ResultsLogger(False, dump_straight_to_disk=False): nothing logged yet
NewLogger == <<>>

\* CallLogger with one logger shared by every call
CallLoggerMut(previous) == previous

\* the logger one call of measurePrecomputedResolution starts with
CallLogger(previous) == NewLogger

\* ResultsLogger.addResolutionResultDict
addResolutionResultDict(log, result_dict) == Append(log, result_dict)

\* MeasureResult dropping a query without candidates instead of logging zeros
MeasureResultMut(log, result, parameters) ==
    IF ~result.has_formulas THEN Return(log)
    ELSE LET retrieved == runPrecomputedQuery(result.formulas, parameters) IN
         IF retrieved.kind = "raise" THEN retrieved
         ELSE IF Len(retrieved.value) = 0 THEN Return(log)
         ELSE Return(addResolutionResultDict(log, MeasuredDict(result, retrieved.value)))

\* the body of the loop over retrieval_results, for one result
MeasureResult(log, result, parameters) ==
    IF ~result.has_formulas THEN Return(log)
    ELSE LET retrieved == runPrecomputedQuery(result.formulas, parameters) IN
         IF retrieved.kind = "raise" THEN retrieved
         ELSE IF Len(retrieved.value) = 0
         THEN Return(addResolutionResultDict(log, EmptyQueryDict(result)))
         ELSE Return(addResolutionResultDict(log, MeasuredDict(result, retrieved.value)))

RECURSIVE MeasureLoop(_, _, _, _)
MeasureLoop(log, retrieval_results, i, parameters) ==
    IF i > Len(retrieval_results) THEN Return(log)
    ELSE LET r == MeasureResult(log, retrieval_results[i], parameters) IN
         IF r.kind = "raise" THEN r
         ELSE MeasureLoop(r.value, retrieval_results, i + 1, parameters)

\* the query methods of the logged results, in order of first appearance
RECURSIVE QueryMethods(_)
QueryMethods(log) ==
    IF log = <<>> THEN <<>>
    ELSE LET before == QueryMethods(SubSeq(log, 1, Len(log) - 1))
             qm == log[Len(log)].query_method
         IN  IF \E i \in 1..Len(before) : before[i] = qm THEN before
             ELSE Append(before, qm)

\* ResultsLogger.scores[metric][query_method][doc_method]: the sum of a metric
ScoreTotal(log, query_method, metric) ==
    LET mine == {i \in 1..Len(log) : log[i].query_method = query_method} IN
    SumOver(mine, [i \in 1..Len(log) |-> log[i][metric]])

\* ResultsLogger.computeAverageScores: the mean of each metric over the
\* results logged for (query_method, doc_method)
computeAverageScores(log, query_method) ==
    LET n == Cardinality({i \in 1..Len(log) : log[i].query_method = query_method})
        mean(metric) == IF n = 0 THEN 0 ELSE ScoreTotal(log, query_method, metric) \div n
    IN  [mrr |-> mean("mrr_score"), ndcg |-> mean("ndcg_score"),
         precision |-> mean("precision_score")]

DataLine(log, query_method) ==
    LET averages == computeAverageScores(log, query_method) IN
    [query_method |-> query_method, doc_method |-> Method,
     avg_mrr |-> averages.mrr, avg_ndcg |-> averages.ndcg,
     avg_precision |-> averages.precision,
     precision_total |-> ScoreTotal(log, query_method, "precision_score")]

DataLines(log) ==
    LET qms == QueryMethods(log) IN [k \in 1..Len(qms) |-> DataLine(log, qms[k])]

\* --------------------------------------------------------------------- state
VARIABLES
    formula,            \* StoredFormula.formula
    explanation,        \* the explanation last given to fromElasticExplanation
    save_terms,         \* the save_terms flag of that call
    field_parameters,   \* the caller's field -> weight dict
    kw_parameters,      \* the caller's term -> weight dict
    outcome,            \* what the last computeScore call returned or raised
    last_op,            \* the operation that produced this state
    retrieval_results,  \* the list of precomputed results being rescored
    parameters,         \* the weight dict they are rescored with
    logger,             \* the results logged by the last rescoring call
    scores,             \* what the last rescoring call returned or raised
    previous            \* what the call before it returned, same inputs

\* the cross-validation run of WeightTrainer.trainWeights
VARIABLES
    python,             \* major version of the interpreter running the trainer
    numfolds,           \* exp.get("cross_validation_folds", 2)
    group_sizes,        \* query type -> len(loadPrecomputedFormulas(query_type))
    tpc,                \* position of trainWeights: training pass, test pass, ended
    split_fold,         \* the fold being trained or tested
    group,              \* 0-based position in exp["train_weights_for"]
    fold_weights,       \* best_weights of the dynamicWeightValues call under way
    best_weights,       \* trainWeights' fold -> weights of that fold
    selection,          \* outcome of the last traincv, testcv = cv[split_fold]
    results,            \* rows of the improvements table
    fold_results        \* rows of the folds table

\* the weight search of dynamicWeightValues for one query type and method
VARIABLES
    objective,          \* the training subset and exp["metric"], or a synthetic metric
    weights,            \* the weight vector being searched
    tentative,          \* the vector last passed to the metric
    score_baseline,
    previous_score,
    first_baseline,
    this_score,
    overall_improvement,
    passes,
    direction,          \* 1-based position in exp["movements"]
    index,              \* 0-based position in list(weights.keys())
    opc,                \* position of the search: start, sweep, end_sweep, final, done
    trial,              \* the trial last run: its weight, the vector and score before it
    sweep_start,        \* the vector held when the sweep under way began
    trials,             \* number of trials run so far
    smooth_weights,     \* exp.get("smooth_weights")
    returned,           \* best_weights[query_type][method], in thirds of a unit
    runtime_parameters, \* all_doc_methods[method]["runtime_parameters"]
    GLOBAL_FILE_COUNTER,
    units               \* the searches completed before the one under way

\* a scientific document being built
VARIABLES
    doc                 \* SciDoc: data["content"], data["citations"], data["references"],
                        \* the lists and dicts of updateContentLists, and abstract

fvars == <<formula, explanation, save_terms, field_parameters, kw_parameters, outcome>>

ovars == <<objective, weights, tentative, score_baseline, previous_score, first_baseline,
           this_score, overall_improvement, passes, direction, index, opc, trial,
           sweep_start, trials, smooth_weights, returned, runtime_parameters,
           GLOBAL_FILE_COUNTER, units>>

mvars == <<retrieval_results, parameters, logger, scores, previous>>

tvars == <<python, numfolds, group_sizes, tpc, split_fold, group, fold_weights,
           best_weights, selection, results, fold_results>>

dvars == <<doc>>

wvars == <<tvars, ovars, dvars>>

vars == <<fvars, last_op, mvars, wvars>>

\* SciDoc(): the document after __init__ without data.  An object held in
\* several places (data["content"], element_by_id, allsections, ...) is one
\* object: the lists and dicts hold its position in data["content"],
\* data["citations"] or data["references"].  abstract = 0 stands for {}.
EmptyDoc ==
    [content |-> <<>>, citations |-> <<>>, references |-> <<>>,
     allsentences |-> <<>>, allparagraphs |-> <<>>, allsections |-> <<>>,
     element_by_id |-> EmptyDict, citation_by_id |-> EmptyDict,
     reference_by_id |-> EmptyDict, abstract |-> 0]

\* no document under construction
IdleDoc == doc = EmptyDoc

InitFormula ==
    /\ formula = EmptyFormula
    /\ explanation = NoExplanation
    /\ save_terms = FALSE
    /\ field_parameters = EmptyDict
    /\ kw_parameters = EmptyDict
    /\ outcome = NoOutcome
    /\ last_op = "init"

InitMeasure(lists) ==
    /\ retrieval_results \in lists
    /\ parameters = UniformWeights
    /\ logger = NewLogger
    /\ scores = NoOutcome
    /\ previous = NoOutcome

\* no cross-validation run under way
IdleTrain ==
    /\ python = 3
    /\ numfolds = 2
    /\ group_sizes = EmptyDict
    /\ tpc = "idle"
    /\ split_fold = 0
    /\ group = 0
    /\ fold_weights = EmptyDict
    /\ best_weights = EmptyDict
    /\ selection = NoOutcome
    /\ results = <<>>
    /\ fold_results = <<>>

NoTrial == [weight_name |-> "", prev_weight |-> 0, delta |-> 0, before |-> UniformWeights,
            previous_score |-> 0, run |-> FALSE]

\* no weight search under way
IdleOpt(objectives) ==
    /\ objective \in objectives
    /\ weights = UniformWeights
    /\ tentative = UniformWeights
    /\ score_baseline = 0
    /\ previous_score = 0
    /\ first_baseline = 0
    /\ this_score = 0
    /\ overall_improvement = 0
    /\ passes = 0
    /\ direction = 1
    /\ index = 0
    /\ opc = "start"
    /\ trial = NoTrial
    /\ sweep_start = UniformWeights
    /\ trials = 0
    /\ smooth_weights = FALSE
    /\ returned = EmptyDict
    /\ runtime_parameters = UniformWeights
    /\ GLOBAL_FILE_COUNTER = 0
    /\ units = <<>>

Init == InitFormula /\ InitMeasure({<<>>}) /\ IdleTrain /\ IdleDoc /\ IdleOpt({NoOutcome})

\* a StoredFormula is loaded once, from the explanation of one (query, document) pair
fromElasticExplanation ==
    \E e \in Explanations, st \in BOOLEAN :
        /\ formula = EmptyFormula
        /\ explanation = NoExplanation
        /\ formula' = ParsedFormula(formula, e, st)
        /\ explanation' = e
        /\ save_terms' = st
        /\ outcome' = ParseOutcome(e, st)
        /\ last_op' = "fromElasticExplanation"
        /\ UNCHANGED <<field_parameters, kw_parameters, mvars, wvars>>

\* the caller sets one field weight of the dict it will recompute with
SetFieldWeight ==
    \E f \in Fields, w \in FieldWeightValues :
        /\ field_parameters' = DictSet(field_parameters, f, w)
        /\ outcome' = NoOutcome
        /\ last_op' = "caller"
        /\ UNCHANGED <<formula, explanation, save_terms, kw_parameters, mvars, wvars>>

\* the caller sets one term weight of the dict it will recompute with
SetTermWeight ==
    \E t \in Terms, w \in TermWeightValues :
        /\ kw_parameters' = DictSet(kw_parameters, t, w)
        /\ outcome' = NoOutcome
        /\ last_op' = "caller"
        /\ UNCHANGED <<formula, explanation, save_terms, field_parameters, mvars, wvars>>

\* computeScoreCall caching the recomputed score in the stored node
computeScoreCallMut ==
    /\ outcome' = computeScore(formula, field_parameters, kw_parameters)
    /\ formula' = [formula EXCEPT !.value = outcome'.value]
    /\ last_op' = "computeScore"
    /\ UNCHANGED <<explanation, save_terms, field_parameters, kw_parameters, mvars, wvars>>

\* computeScore(None, field_parameters, kw_parameters)
computeScoreCall ==
    /\ outcome' = computeScore(formula, field_parameters, kw_parameters)
    /\ last_op' = "computeScore"
    /\ UNCHANGED <<formula, explanation, save_terms, field_parameters, kw_parameters, mvars, wvars>>

Next == fromElasticExplanation \/ SetFieldWeight \/ SetTermWeight \/ computeScoreCall

Spec == Init /\ [][Next]_vars

\* ---- rescoring of precomputed results
\* the optimizer moves one weight of the vector it evaluates next
SetWeight ==
    \E f \in Fields, w \in FieldWeightValues :
        /\ parameters' = DictSet(parameters, f, w)
        /\ parameters' # parameters
        /\ scores' = NoOutcome
        /\ previous' = NoOutcome
        /\ last_op' = "caller"
        /\ UNCHANGED <<fvars, retrieval_results, logger, wvars>>

\* measurePrecomputedResolution(retrieval_results, method, parameters)
measurePrecomputedResolution ==
    LET run == MeasureLoop(CallLogger(logger), retrieval_results, 1, parameters) IN
    /\ logger' = IF run.kind = "return" THEN run.value ELSE logger
    /\ scores' = IF run.kind = "return" THEN Return(DataLines(run.value)) ELSE run
    /\ previous' = scores
    /\ last_op' = "measurePrecomputedResolution"
    /\ UNCHANGED <<fvars, retrieval_results, parameters, wvars>>

InitRescore == InitFormula /\ InitMeasure(ResultLists) /\ IdleTrain /\ IdleDoc /\ IdleOpt({NoOutcome})

NextRescore == SetWeight \/ measurePrecomputedResolution

SpecRescore == InitRescore /\ [][NextRescore]_vars

\* ------------------------------------------------------------------ claims
Computed == last_op = "computeScore"

IsHit(n) == n.pytype = "tuple"

\* the field lookup of a hit does not raise
FieldLookupOk(n) ==
    ~Truthy(field_parameters) \/ Item(n.tuple, 0) \in DOMAIN field_parameters

\* the multiplier the specification gives a field: its weight, 1 when absent
SpecMultiplier(f) == IF f \in DOMAIN field_parameters THEN field_parameters[f] ELSE 1

RECURSIVE Nodes(_)
Nodes(n) == {n} \cup UNION {Nodes(n.parts[i]) : i \in 1..Len(n.parts)}

RECURSIVE FieldsOf(_)
FieldsOf(d) ==
    (IF d.desc = "weight" THEN {d.field} ELSE {})
        \cup UNION {FieldsOf(d.details[i]) : i \in 1..Len(d.details)}

\* C1: a hit recomputed with field weights only scores
\* query_weight * w * field_score, w being the field's weight, or 1 when the
\* field is absent from the mapping; an absent field never raises.
C1_HitFieldWeight ==
    (Computed /\ IsHit(formula) /\ ~Truthy(kw_parameters)) =>
        outcome = Return(Item(formula.tuple, 1)
                            * SpecMultiplier(Item(formula.tuple, 0))
                            * Item(formula.tuple, 2))

\* C2: with a non-empty term-weight map, a hit parsed with save_terms scores
\* term_weights.get(term, 0) * query_weight * w * field_score, the key being
\* the hit's own term, for both leaf shapes.
C2_HitTermWeight ==
    (Computed /\ IsHit(formula) /\ save_terms /\ Truthy(kw_parameters)
        /\ FieldLookupOk(formula)) =>
        outcome = Return(DictGet(kw_parameters, explanation.explanation.term, 0)
                            * Item(formula.tuple, 1)
                            * SpecMultiplier(Item(formula.tuple, 0))
                            * Item(formula.tuple, 2))

\* C3: with a non-empty term-weight map, a hit parsed without save_terms
\* (3-field or 6-field leaf) fails with the missing-term ValueError.
C3_MissingTermError ==
    (Computed /\ IsHit(formula) /\ ~save_terms /\ Truthy(kw_parameters)
        /\ FieldLookupOk(formula)) =>
        outcome = Raise(MissingTerm)

PartOutcomes(n) ==
    [i \in 1..Len(n.parts) |-> computeScore(n.parts[i], field_parameters, kw_parameters)]

PartValues(n) == [i \in 1..Len(n.parts) |-> PartOutcomes(n)[i].value]

\* C4: a combining node with parts returns the sum, product or maximum of
\* its parts' scores under the same weights (the first error of a part when one
\* raises); a const or coord node returns its stored value whatever the weights.
C4_CombineAndConstant ==
    Computed =>
        /\ (formula.type \in {"+", "*", "max"} /\ formula.parts # <<>>) =>
              IF \A i \in 1..Len(formula.parts) : PartOutcomes(formula)[i].kind = "return"
              THEN outcome = Return(CASE formula.type = "+" -> SumSeq(PartValues(formula))
                                      [] formula.type = "*" -> ProdSeq(PartValues(formula))
                                      [] formula.type = "max" -> MaxSeq(PartValues(formula)))
              ELSE outcome = FirstRaise(PartOutcomes(formula))
        /\ formula.type \in {"const", "coord"} =>
              outcome = Return(explanation.explanation.value)

C4_Witness ==
    /\ Computed
    /\ formula.type = "max"
    /\ Len(formula.parts) = 2
    /\ Truthy(field_parameters)
    /\ outcome.kind = "return"
    /\ outcome.value = 6
    /\ SumSeq(PartValues(formula)) = 8

\* C5: the formula stored for an unmatched explanation recomputes to 0
\* under every weight mapping, without raising.
C5_UnmatchedScoresZero ==
    (Computed /\ formula = UnmatchedFormula) => outcome = Return(0)

AllOnes ==
    /\ \A f \in DOMAIN field_parameters : field_parameters[f] = 1
    /\ ~Truthy(kw_parameters)
    /\ Truthy(field_parameters) => FieldsOf(explanation.explanation) \subseteq DOMAIN field_parameters

\* C6: round trip: a matched explanation with consistent node values,
\* parsed and recomputed with every field weight 1 and no term weights, gives
\* the explanation's top-level value.
C6_RoundTrip ==
    (Computed /\ explanation.matched /\ ~HasUnknownNode(explanation) /\ AllOnes) =>
        outcome = Return(explanation.explanation.value)

C6_Witness ==
    /\ Computed
    /\ explanation.matched
    /\ AllOnes
    /\ DOMAIN field_parameters = Fields
    /\ explanation.explanation.desc = "product of"
    /\ Len(explanation.explanation.details) = 2
    /\ explanation.explanation.details[1].desc = "sum of"
    /\ outcome = Return(18)

ZeroedHit(n) ==
    /\ IsHit(n)
    /\ Item(n.tuple, 0) \in DOMAIN field_parameters
    /\ field_parameters[Item(n.tuple, 0)] = 0

HasZeroedPart(n) == \E i \in 1..Len(n.parts) : ZeroedHit(n.parts[i])

OtherPartValues(n) ==
    LET keep == {i \in 1..Len(n.parts) : ~ZeroedHit(n.parts[i])} IN
    SumSeq([i \in 1..Len(n.parts) |-> IF i \in keep THEN PartValues(n)[i] ELSE 0])

\* C7: a hit on a field whose weight is 0 recomputes to exactly 0; a
\* sum that has it as a part returns the sum of its other parts and a product
\* that has it as a direct part returns 0.
C7_ZeroFieldWeight ==
    Computed =>
        \A n \in Nodes(formula) :
            LET r == computeScore(n, field_parameters, kw_parameters) IN
            /\ ZeroedHit(n) =>
                  /\ r.kind = "return" => r.value = 0
                  /\ ~Truthy(kw_parameters) => r = Return(0)
            /\ (n.type = "*" /\ HasZeroedPart(n) /\ r.kind = "return") => r.value = 0
            /\ (n.type = "+" /\ HasZeroedPart(n) /\ r.kind = "return") =>
                  r.value = OtherPartValues(n)
            /\ n = formula => r = outcome

C7_Witness ==
    /\ Computed
    /\ ~Truthy(kw_parameters)
    /\ formula.type = "*"
    /\ Len(formula.parts) = 2
    /\ ZeroedHit(formula.parts[1])
    /\ ~ZeroedHit(formula.parts[2])
    /\ PartOutcomes(formula)[2] = Return(12)
    /\ outcome = Return(0)

\* C8: computeScore changes neither the stored formula nor the two
\* weight dicts, whether it returns or raises.
C8_ComputeScoreFrame ==
    [][last_op' = "computeScore" =>
          /\ formula' = formula
          /\ field_parameters' = field_parameters
          /\ kw_parameters' = kw_parameters]_vars

C8_Witness ==
    /\ Computed
    /\ outcome.kind = "raise"
    /\ formula.parts # <<>>
    /\ formula = ParsedFormula(EmptyFormula, explanation, save_terms)
    /\ Truthy(field_parameters)
    /\ Truthy(kw_parameters)

Measured == last_op = "measurePrecomputedResolution"

\* positions of the results that carry formulas, in list order
RECURSIVE WithFormulas(_)
WithFormulas(rr) ==
    IF rr = <<>> THEN <<>>
    ELSE LET before == WithFormulas(SubSeq(rr, 1, Len(rr) - 1)) IN
         IF rr[Len(rr)].has_formulas THEN Append(before, Len(rr)) ELSE before

\* C9: a query whose candidate list is empty is logged with rank 0 and
\* mrr, ndcg and precision 0; the call does not raise and every other query
\* that carries formulas is processed and logged too.
C9_EmptyQueryZero ==
    Measured =>
        LET idx == WithFormulas(retrieval_results) IN
        /\ scores.kind = "return"
        /\ Len(logger) = Len(idx)
        /\ \A k \in 1..Len(idx) :
              LET result == retrieval_results[idx[k]] IN
              /\ logger[k].citation_id = result.citation_id
              /\ result.formulas = <<>> =>
                    /\ logger[k].rank = 0
                    /\ logger[k].mrr_score = 0
                    /\ logger[k].ndcg_score = 0
                    /\ logger[k].precision_score = 0

C9_Witness ==
    /\ Measured
    /\ Len(retrieval_results) = 2
    /\ retrieval_results[1].has_formulas
    /\ retrieval_results[1].formulas = <<>>
    /\ retrieval_results[2].formulas # <<>>
    /\ scores.kind = "return"
    /\ Len(logger) = 2
    /\ logger[1].rank = 0
    /\ logger[2].rank = 1

\* C10: a rescoring call repeated with the same result list, method and
\* weights returns the same metrics, and a call changes neither the result list
\* (with its formulas) nor the weight vector.
C10_Idempotent ==
    /\ []((Measured /\ previous.kind # "none") => scores = previous)
    /\ [][last_op' = "measurePrecomputedResolution" =>
             /\ retrieval_results' = retrieval_results
             /\ parameters' = parameters]_vars

C10_Witness ==
    /\ Measured
    /\ previous.kind = "return"
    /\ scores = previous
    /\ parameters # UniformWeights
    /\ Len(scores.value) = 2
    /\ scores.value[1].precision_total > 0
    /\ scores.value[1].avg_mrr > 0

\* ------------------------------------------------------- cross-validation
MaxFolds == 3

MaxGroupSize == 4

\* exp["train_weights_for"]
train_weights_for == <<"type_a", "type_b">>

QueryTypes == {train_weights_for[i] : i \in 1..Len(train_weights_for)}

\* first index of the test block of fold f: the first n % k blocks are one longer
FoldStart(n, k, f) == f * (n \div k) + Min(f, n % k)

FoldSize(n, k, f) == (n \div k) + (IF f < n % k THEN 1 ELSE 0)

\* KFold(n_splits=k, shuffle=False).split(x) for len(x) = n: for each fold the
\* (train indices, test indices) pair, test blocks contiguous and in order
KFoldSplit(n, k) ==
    [i \in 1..k |->
        LET test == FoldStart(n, k, i - 1)..(FoldStart(n, k, i - 1) + FoldSize(n, k, i - 1) - 1)
        IN  <<(0..(n - 1)) \ test, test>>]

\* zip(iterable) of ONE iterable: 1-tuples of its items; a list under
\* Python 2, a zip object under Python 3
ZipFolds(py, folds) ==
    [pytype |-> IF py = 2 THEN "list" ELSE "zip",
     items |-> [i \in 1..Len(folds) |-> <<folds[i]>>]]

\* the KFold object itself, which has split() but no __iter__
KFoldObject(n, k) == [pytype |-> "KFold", items |-> <<>>]

\* obj[i]
Subscript(obj, i) ==
    IF obj.pytype = "list" THEN Return(Item(obj.items, i)) ELSE Raise("TypeError")

\* [x for x in obj]
Iterate(obj) ==
    IF obj.pytype \in {"list", "zip"}
    THEN Return([pytype |-> "list", items |-> obj.items])
    ELSE Raise("TypeError")

\* traincv, testcv = t
Unpack2(t) ==
    IF Len(t) = 2 THEN Return([traincv |-> t[1], testcv |-> t[2]]) ELSE Raise("ValueError")

\* dynamicWeightValues: cv = zip(cv.split(...)); traincv, testcv = cv[split_fold]
TrainFoldSelection(py, n, k, fold) ==
    LET item == Subscript(ZipFolds(py, KFoldSplit(n, k)), fold) IN
    IF item.kind = "raise" THEN item ELSE Unpack2(item.value)

\* measureScoresOfWeights: cv = [k for k in cv]; traincv, testcv = cv[split_fold]
TestFoldSelection(n, k, fold) ==
    LET listed == Iterate(KFoldObject(n, k)) IN
    IF listed.kind = "raise" THEN listed
    ELSE LET item == Subscript(listed.value, fold) IN
         IF item.kind = "raise" THEN item ELSE Unpack2(item.value)

\* the two guards that skip a query type
Skipped(n, k) == n = 0 \/ n < k

InitTrain ==
    /\ InitFormula /\ InitMeasure({<<>>}) /\ IdleDoc /\ IdleOpt({NoOutcome})
    /\ python \in {2, 3}
    /\ numfolds \in 2..MaxFolds
    /\ group_sizes \in [QueryTypes -> 0..MaxGroupSize]
    /\ tpc = "train"
    /\ split_fold = 0
    /\ group = 0
    /\ fold_weights = EmptyDict
    /\ best_weights = EmptyDict
    /\ selection = NoOutcome
    /\ results = <<>>
    /\ fold_results = <<>>

\* one turn of "for query_type in self.exp['train_weights_for']" in
\* dynamicWeightValues(split_fold); after the last query type the call returns
\* to trainWeights, which stores the fold's weights and moves to the next fold
\* or to measureScoresOfWeights
TrainGroup ==
    LET query_type == Item(train_weights_for, group)
        n == group_sizes[query_type]
        started == DictSet(fold_weights, query_type, EmptyDict)
        sel == TrainFoldSelection(python, n, numfolds, split_fold)
        last == group + 1 = Len(train_weights_for)
    IN
    /\ tpc = "train"
    /\ IF Skipped(n, numfolds)
       THEN /\ selection' = selection
            /\ fold_weights' = IF last THEN EmptyDict ELSE started
            /\ best_weights' = IF last THEN DictSet(best_weights, split_fold, started)
                               ELSE best_weights
            /\ group' = IF last THEN 0 ELSE group + 1
            /\ split_fold' = IF ~last THEN split_fold
                             ELSE IF split_fold + 1 < numfolds THEN split_fold + 1 ELSE 0
            /\ tpc' = IF last /\ ~(split_fold + 1 < numfolds) THEN "test" ELSE "train"
       ELSE /\ selection' = sel
            /\ fold_weights' = started
            /\ tpc' = IF sel.kind = "raise" THEN "raised" ELSE "optimize"
            /\ UNCHANGED <<best_weights, group, split_fold>>
    /\ UNCHANGED <<fvars, last_op, dvars, mvars, ovars, python, numfolds, group_sizes, results,
                   fold_results>>

\* the rows of one fold that count in its averages
Improvements(rows, fold) ==
    SelectSeq(rows, LAMBDA r : r.fold = fold /\ r.type = "weight")

FoldResult(rows, fold) ==
    [fold |-> fold,
     avg_improvement |-> IF Len(Improvements(rows, fold)) > 0
                         THEN SumOver(1..Len(Improvements(rows, fold)),
                                      [i \in 1..Len(Improvements(rows, fold)) |->
                                          Improvements(rows, fold)[i].improvement])
                              \div Len(Improvements(rows, fold))
                         ELSE 0,
     num_zones |-> Len(Improvements(rows, fold))]

\* one turn of "for query_type in self.exp['train_weights_for']" in
\* measureScoresOfWeights; after the last query type the fold's row is added,
\* and after the last fold the tables are written
TestGroup ==
    LET query_type == Item(train_weights_for, group)
        n == group_sizes[query_type]
        sel == TestFoldSelection(n, numfolds, split_fold)
        last == group + 1 = Len(train_weights_for)
    IN
    /\ tpc = "test"
    /\ IF Skipped(n, numfolds)
       THEN /\ selection' = selection
            /\ group' = IF last THEN 0 ELSE group + 1
            /\ fold_results' = IF last THEN Append(fold_results, FoldResult(results, split_fold))
                               ELSE fold_results
            /\ split_fold' = IF ~last THEN split_fold
                             ELSE IF split_fold + 1 < numfolds THEN split_fold + 1 ELSE 0
            /\ tpc' = IF last /\ ~(split_fold + 1 < numfolds) THEN "done" ELSE "test"
       ELSE /\ selection' = sel
            /\ tpc' = IF sel.kind = "raise" THEN "raised" ELSE "evaluate"
            /\ UNCHANGED <<group, split_fold, fold_results>>
    /\ UNCHANGED <<fvars, last_op, dvars, mvars, ovars, python, numfolds, group_sizes,
                   fold_weights, best_weights, results>>

NextTrain == TrainGroup \/ TestGroup

SpecTrain == InitTrain /\ [][NextTrain]_vars

\* ---- claims on the fold split
\* a fold has been selected for some query type of the run
FoldSelected == selection.kind # "none"

Contiguous(S) == \A i \in S, j \in S : \A m \in i..j : m \in S

\* the (train, test) pair a pass selects for fold f, or what it raises
IsSplit(sel, n) ==
    /\ sel.kind = "return"
    /\ sel.value.traincv \cap sel.value.testcv = {}
    /\ sel.value.traincv \cup sel.value.testcv = 0..(n - 1)
    /\ Contiguous(sel.value.testcv)

\* C11: for every n and k with 2 <= k <= n, the training pass and the test pass
\* select for each fold index a (train, test) pair of index sets over 0..n-1
\* that are disjoint, together are all of 0..n-1 and whose test set is
\* contiguous; the k test sets are pairwise disjoint and cover every index
\* exactly once, and the pair depends on (n, k, fold index) only.
C11_FoldPartition ==
    FoldSelected =>
        \A qt \in QueryTypes :
            LET n == group_sizes[qt]
                k == numfolds
            IN  (2 <= k /\ k <= n) =>
                    /\ \A f \in 0..(k - 1) :
                        /\ IsSplit(TrainFoldSelection(python, n, k, f), n)
                        /\ IsSplit(TestFoldSelection(n, k, f), n)
                        /\ TrainFoldSelection(python, n, k, f).value
                             = TestFoldSelection(n, k, f).value
                        /\ TrainFoldSelection(2, n, k, f) = TrainFoldSelection(3, n, k, f)
                    /\ \A f \in 0..(k - 1), g \in 0..(k - 1) :
                        f # g => TestFoldSelection(n, k, f).value.testcv
                                   \cap TestFoldSelection(n, k, g).value.testcv = {}
                    /\ UNION {TestFoldSelection(n, k, f).value.testcv : f \in 0..(k - 1)}
                         = 0..(n - 1)

\* ---- claims on the two passes of trainWeights
TrainEnded == tpc \in {"done", "raised"}

\* the weight vector trainWeights holds for (fold, query type, Method), if any
HasVector(f, qt) ==
    /\ f \in DOMAIN best_weights
    /\ qt \in DOMAIN best_weights[f]
    /\ Method \in DOMAIN best_weights[f][qt]

RowsOf(f, qt) == SelectSeq(results, LAMBDA r : r.fold = f /\ r.query_type = qt)

\* C12: once trainWeights has ended, for every fold f and every query type
\* with at least as many results as folds, the weight vector evaluated on
\* fold f's test subset is the one trained on fold f's training subset of the
\* same results with the same fold count, and no index it was trained on is
\* among the indices it was tested on.
C12_TrainTestSeparation ==
    TrainEnded =>
        \A f \in 0..(numfolds - 1), qt \in QueryTypes :
            ~Skipped(group_sizes[qt], numfolds) =>
                /\ HasVector(f, qt)
                /\ \E i \in 1..Len(RowsOf(f, qt)) :
                    LET row == RowsOf(f, qt)[i] IN
                    /\ row.type = "weight"
                    /\ row.weights = best_weights[f][qt][Method]
                    /\ row.trained_on = KFoldSplit(group_sizes[qt], numfolds)[f + 1][1]
                    /\ row.tested_on = KFoldSplit(group_sizes[qt], numfolds)[f + 1][2]
                    /\ row.trained_on \cap row.tested_on = {}

\* C20: once trainWeights has ended, in both passes a query type with zero
\* results or fewer results than folds has no weight vector and no output row
\* and is not counted in the fold's averages, while every other query type of
\* the same fold has been trained and evaluated.
C20_SkipThisGroupOnly ==
    TrainEnded =>
        \A f \in 0..(numfolds - 1), qt \in QueryTypes :
            IF Skipped(group_sizes[qt], numfolds)
            THEN /\ ~HasVector(f, qt)
                 /\ RowsOf(f, qt) = <<>>
                 /\ \A i \in 1..Len(fold_results) :
                        fold_results[i].fold = f =>
                            fold_results[i].num_zones
                                = Cardinality({q \in QueryTypes :
                                                  ~Skipped(group_sizes[q], numfolds)})
            ELSE /\ HasVector(f, qt)
                 /\ RowsOf(f, qt) # <<>>

\* ------------------------------------------------------------ weight search
MaxPasses == 8

MaxTarget == 19

MIN_WEIGHT == 0

\* movements with an upward step of 5
movementsMut == <<-1, 5, -2>>

\* self.exp["movements"]
movements == <<-1, 6, -2>>

\* list(weights.keys()): the method's runtime_parameters in insertion order
WeightNames == <<"title", "text">>

MetricNames == {"avg_mrr", "avg_ndcg", "avg_precision"}

Max(a, b) == IF a >= b THEN a ELSE b

Abs(x) == IF x < 0 THEN 0 - x ELSE x

\* objectives the search is run against: the rescoring of a training subset
\* under exp["metric"], and synthetic metrics standing in for it
TableCells == (0..2) \X (0..2)

RescoreObjective(train_set, metric) ==
    [kind |-> "rescore", train_set |-> train_set, metric |-> metric,
     target |-> [f \in Fields |-> 0], table |-> [c \in TableCells |-> 0]]

\* separable sum with one peak per weight, at target[f]
PeaksObjective(target) ==
    [kind |-> "peaks", train_set |-> <<>>, metric |-> "",
     target |-> target, table |-> [c \in TableCells |-> 0]]

\* any 0/1 metric of the two weights, weights of 2 and more alike (and any below 0)
TableObjective(table) ==
    [kind |-> "table", train_set |-> <<>>, metric |-> "",
     target |-> [f \in Fields |-> 0], table |-> table]

\* a metric of the second weight alone with several local maxima, weights of
\* 12 and more alike
Curve == <<1, 0, 6, 4, 4, 1, 2, 8, 7, 3, 0, 6, 8>>

CurveObjective ==
    [kind |-> "curve", train_set |-> <<>>, metric |-> "",
     target |-> [f \in Fields |-> 0], table |-> [c \in TableCells |-> 0]]

SyntheticObjectives ==
    {PeaksObjective(t) : t \in [Fields -> 0..MaxTarget]}
    \cup {TableObjective(t) : t \in [TableCells -> 0..1]}

Objectives ==
    {RescoreObjective(ts, m) : ts \in ResultLists, m \in MetricNames}
    \cup SyntheticObjectives
    \cup {CurveObjective}

\* addExtraWeights(weights, exp) with no extra weights configured
addExtraWeights(w) == w

\* measurePrecomputedResolution(train_set, method, parameters, query_type)[0][exp["metric"]]
MeasuredScore(train_set, metric, params) ==
    LET run == MeasureLoop(CallLogger(NewLogger), train_set, 1, params) IN
    IF run.kind = "raise" THEN run
    ELSE IF DataLines(run.value) = <<>> THEN Raise("IndexError")
    ELSE Return(DataLines(run.value)[1][metric])

PeaksScore(target, params) ==
    SumOver(Fields, [f \in Fields |-> Max(0, 20 - Abs(params[f] - target[f]))])

TableScore(table, params) ==
    table[<<Max(0, Min(params[WeightNames[1]], 2)), Max(0, Min(params[WeightNames[2]], 2))>>]

CurveScore(params) ==
    Curve[Max(0, Min(params[WeightNames[2]], Len(Curve) - 1)) + 1]

\* the score the search reads for a weight vector
Objective(obj, params) ==
    IF obj.kind = "rescore" THEN MeasuredScore(obj.train_set, obj.metric, params)
    ELSE IF obj.kind = "peaks" THEN Return(PeaksScore(obj.target, params))
    ELSE IF obj.kind = "curve" THEN Return(CurveScore(params))
    ELSE Return(TableScore(obj.table, params))

\* MovedWeight without the floor
MovedWeightMut(w, delta) == w + delta

\* max(MIN_WEIGHT, weights[weight_name] + direction)
MovedWeight(w, delta) == Max(MIN_WEIGHT, w + delta)

\* Rejected keeping a move that ties the score
RejectedMut(this, prev) == this < prev

\* Rejected keeping every move
RejectedNever(this, prev) == FALSE

\* if this_score <= previous_score: the trial is undone
Rejected(this, prev) == this <= prev

\* LoopContinues going on after a sweep without improvement
LoopContinuesNoStop(p, improvement) == p < 3 \/ improvement >= 0

\* LoopContinues with a minimum of two sweeps
LoopContinuesMut(p, improvement) == p < 2 \/ improvement > 0

\* while passes < 3 or overall_improvement > 0
LoopContinues(p, improvement) == p < 3 \/ improvement > 0

\* the smoothing of one returned weight; amount is abs(min(1, w) / 3), and the
\* result is in thirds of a unit
SmoothedWeight(w) ==
    LET amount == Abs(Min(1, w)) IN
    IF w > 1 THEN 3 * w - amount
    ELSE IF w < 1 THEN 3 * w + amount
    ELSE 3 * w

InitOpt == InitFormula /\ InitMeasure({<<>>}) /\ IdleTrain /\ IdleDoc /\ IdleOpt(Objectives)

\* InitialWeights keeping the values found in runtime_parameters
InitialWeightsMut(params) == params

\* {x: 1 for x in all_doc_methods[method]["runtime_parameters"]}
InitialWeights(params) == [x \in DOMAIN params |-> 1]

\* weights = {x: 1 ...}; the baseline score; the loop is entered (passes = 0)
OptStart ==
    LET started == InitialWeights(runtime_parameters)
        r == Objective(objective, addExtraWeights(started))
    IN
    /\ opc = "start"
    /\ weights' = started
    /\ runtime_parameters' = started
    /\ tentative' = addExtraWeights(started)
    /\ sweep_start' = started
    /\ IF r.kind = "raise"
       THEN /\ opc' = "raised"
            /\ UNCHANGED <<score_baseline, previous_score, first_baseline, overall_improvement,
                           GLOBAL_FILE_COUNTER, passes, direction, index>>
       ELSE /\ opc' = "sweep"
            /\ score_baseline' = r.value
            /\ previous_score' = r.value
            /\ first_baseline' = r.value
            /\ overall_improvement' = r.value
            /\ GLOBAL_FILE_COUNTER' = GLOBAL_FILE_COUNTER + 1
            /\ passes' = 0
            /\ direction' = 1
            /\ index' = 0
    /\ UNCHANGED <<fvars, last_op, dvars, mvars, tvars, objective, this_score, trial, trials,
                   smooth_weights, returned, units>>

\* one trial: move one weight, score the vector, keep the move or undo it
Trial ==
    LET weight_name == Item(WeightNames, index)
        prev_weight == weights[weight_name]
        delta == movements[direction]
        moved == [weights EXCEPT ![weight_name] = MovedWeight(prev_weight, delta)]
        r == Objective(objective, addExtraWeights(moved))
        last_index == index + 1 = Len(WeightNames)
        last_direction == direction = Len(movements)
    IN
    /\ opc = "sweep"
    /\ passes < MaxPasses
    /\ tentative' = addExtraWeights(moved)
    /\ trial' = [weight_name |-> weight_name, prev_weight |-> prev_weight, delta |-> delta,
                 before |-> weights, previous_score |-> previous_score, run |-> TRUE]
    /\ trials' = trials + 1
    /\ IF r.kind = "raise"
       THEN /\ opc' = "raised"
            /\ weights' = moved
            /\ UNCHANGED <<this_score, previous_score, index, direction>>
       ELSE /\ this_score' = r.value
            /\ weights' = IF Rejected(r.value, previous_score)
                          THEN [moved EXCEPT ![weight_name] = prev_weight]
                          ELSE moved
            /\ previous_score' = IF Rejected(r.value, previous_score)
                                 THEN previous_score
                                 ELSE r.value
            /\ index' = IF last_index THEN 0 ELSE index + 1
            /\ direction' = IF ~last_index THEN direction
                            ELSE IF last_direction THEN 1 ELSE direction + 1
            /\ opc' = IF last_index /\ last_direction THEN "end_sweep" ELSE "sweep"
    /\ runtime_parameters' = weights'
    /\ UNCHANGED <<fvars, last_op, dvars, mvars, tvars, objective, score_baseline, first_baseline,
                   overall_improvement, passes, sweep_start, smooth_weights, returned,
                   GLOBAL_FILE_COUNTER, units>>

\* overall_improvement = this_score - score_baseline
OverallImprovement(this, baseline) == this - baseline

\* improvement = 100 * ((this_score - first_baseline) / float(first_baseline)), or 0
Improvement(this, first) ==
    IF first > 0 THEN (100 * (this - first)) \div first ELSE 0

\* the end of a sweep and the test of the while loop
EndSweep ==
    /\ opc = "end_sweep"
    /\ overall_improvement' = OverallImprovement(this_score, score_baseline)
    /\ score_baseline' = this_score
    /\ passes' = passes + 1
    /\ opc' = IF LoopContinues(passes', overall_improvement') THEN "sweep" ELSE "final"
    /\ sweep_start' = IF LoopContinues(passes', overall_improvement') THEN weights
                      ELSE sweep_start
    /\ GLOBAL_FILE_COUNTER' = GLOBAL_FILE_COUNTER + 1
    /\ UNCHANGED <<fvars, last_op, dvars, mvars, tvars, objective, weights, tentative,
                   previous_score, first_baseline, this_score, direction, index, trial,
                   trials, smooth_weights, returned, runtime_parameters, units>>

\* The dict stored as runtime_parameters at line 98 is the weights dict itself.
\* addExtraWeights returns that dict or a copy of it, so the smoothing of the
\* returned vector changes the stored dict's values (here in thirds) or leaves them.
SmoothedAlias(w, smoothed, smooth) == {w} \cup (IF smooth THEN {smoothed} ELSE {})

\* after the loop: the final score, best_weights[query_type][method] and its smoothing
Finish ==
    \E smooth \in BOOLEAN :
        LET r == Objective(objective, addExtraWeights(weights))
            best == addExtraWeights(weights)
        IN
        /\ opc = "final"
        /\ smooth_weights' = smooth
        /\ tentative' = addExtraWeights(weights)
        /\ IF r.kind = "raise"
           THEN /\ opc' = "raised"
                /\ UNCHANGED <<this_score, returned, runtime_parameters>>
           ELSE /\ opc' = "done"
                /\ this_score' = r.value
                /\ returned' = [f \in DOMAIN best |->
                                   IF smooth THEN SmoothedWeight(best[f]) ELSE 3 * best[f]]
                /\ runtime_parameters' \in SmoothedAlias(weights, returned', smooth)
        /\ UNCHANGED <<fvars, last_op, dvars, mvars, tvars, objective, weights, score_baseline,
                       previous_score, first_baseline, overall_improvement, passes,
                       direction, index, trial, sweep_start, trials, GLOBAL_FILE_COUNTER,
                       units>>

NextOpt == OptStart \/ Trial \/ EndSweep \/ Finish

SpecOptimizer == InitOpt /\ [][NextOpt]_vars

\* the search run against the synthetic metrics
InitOptFair == InitFormula /\ InitMeasure({<<>>}) /\ IdleTrain /\ IdleDoc /\ IdleOpt(SyntheticObjectives)

\* the interpreter keeps running the search until it returns or raises
FairSpecOptimizer == InitOptFair /\ [][NextOpt]_vars /\ WF_vars(NextOpt)

\* ---- claims on the weight search
\* C13: in every state of the search (the initial vector, every vector passed
\* to the metric, the vector after a kept or undone trial, and the returned
\* vector with or without smoothing) every weight is at least 0.
C13_WeightsNonNegative ==
    /\ \A f \in DOMAIN weights : weights[f] >= 0
    /\ \A f \in DOMAIN tentative : tentative[f] >= 0
    /\ \A f \in DOMAIN returned : returned[f] >= 0

\* a trial whose move would have gone below the floor, and a smoothed return
\* of a weight at the floor
C13_Witness ==
    /\ trial.run
    /\ trial.prev_weight + trial.delta < 0
    /\ tentative[trial.weight_name] = 0
    /\ opc = "done"
    /\ smooth_weights
    /\ \E f \in DOMAIN returned : weights[f] = 0

\* a step that runs one trial to its end
TrialStep == trials' = trials + 1 /\ opc' # "raised"

\* the vector a trial passes to the metric: the vector held, one weight moved
TrialVector ==
    [weights EXCEPT ![Item(WeightNames, index)] =
        IF weights[Item(WeightNames, index)] + movements[direction] > 0
        THEN weights[Item(WeightNames, index)] + movements[direction]
        ELSE 0]

\* C14: each trial changes exactly one weight to max(0, weight + delta), scores
\* the vector with every weight kept earlier in the sweep in place, keeps the
\* new value and sets previous_score to the new score if and only if the new
\* score is strictly greater than previous_score, and otherwise restores the
\* weight and leaves previous_score as it was; no other weight changes.
C14_TrialStep ==
    [][TrialStep =>
        /\ tentative' = TrialVector
        /\ this_score' = Objective(objective, TrialVector).value
        /\ IF this_score' > previous_score
           THEN weights' = TrialVector /\ previous_score' = this_score'
           ELSE weights' = weights /\ previous_score' = previous_score
        /\ \A f \in DOMAIN weights :
               f # Item(WeightNames, index) => weights'[f] = weights[f]]_vars

\* a kept trial that was scored with an earlier kept move of the same sweep in place
C14_Witness ==
    /\ trial.run
    /\ opc = "end_sweep" \/ (opc = "sweep" /\ (index # 0 \/ direction # 1))
    /\ weights # trial.before
    /\ trial.before # sweep_start
    /\ previous_score = this_score
    /\ previous_score > trial.previous_score

\* the search has left the sweep loop
LoopLeft == opc \in {"final", "done"}

\* a step that ends a sweep
SweepEnds == passes' = passes + 1

\* C15: a search that leaves the sweep loop has run at least 3 sweeps, each one
\* a trial of every step size on every weight; at the end of a sweep, before
\* the third the next sweep always starts, and from the third on it starts if
\* and only if the overall_improvement computed at the end of that sweep is
\* greater than 0.
C15_SweepCount ==
    /\ [](LoopLeft => /\ passes >= 3
                      /\ trials = passes * Len(movements) * Len(WeightNames))
    /\ [][SweepEnds =>
            /\ trials = passes' * Len(movements) * Len(WeightNames)
            /\ passes' < 3 => opc' = "sweep"
            /\ passes' >= 3 => (opc' = "sweep" <=> overall_improvement' > 0)]_vars

\* a search that ran a sweep beyond the third and then left the loop
C15_Witness ==
    /\ opc = "done"
    /\ passes > 3
    /\ overall_improvement <= 0

\* C16: at the end of each sweep overall_improvement is the metric of the
\* vector held at the end of the sweep minus the metric of the vector held at
\* its start, and score_baseline becomes the metric of the vector held at the
\* end of the sweep, not the score of a trial that was undone.
C16_SweepImprovement ==
    [][SweepEnds =>
        /\ overall_improvement' = Objective(objective, addExtraWeights(weights)).value
                                    - Objective(objective, addExtraWeights(sweep_start)).value
        /\ score_baseline' = Objective(objective, addExtraWeights(weights)).value]_vars

\* the sweep loop is over: left normally, or ended by an exception
LoopOver == opc \in {"final", "done", "raised"}

\* C17: for every deterministic metric with finitely many values, started from
\* the initial vector with step sizes [-1, 6, -2] and floor 0, the sweep loop
\* of the search terminates.
C17_LoopTerminates == <>LoopOver

\* a search whose loop went beyond the minimum of three sweeps, moved the
\* vector, and ended
C17_Witness ==
    /\ opc = "final"
    /\ passes >= 4
    /\ weights # UniformWeights

\* the search has returned for a separable-sum metric with a peak at objective.target
PeaksDone == opc = "done" /\ objective.kind = "peaks"

StepwiseReachable(t) == t \in {0, 1} \/ (t >= 5 /\ (t + 1) % 6 \in {0, 1, 2})

C19_Smoothing ==
    opc = "done" =>
        \A f \in DOMAIN weights :
            /\ f \in DOMAIN returned
            /\ returned[f] = IF smooth_weights THEN 3 * weights[f] - (weights[f] - 1)
                             ELSE 3 * weights[f]
            /\ weights[f] >= 1 => returned[f] >= 3
            /\ weights[f] <= 1 => returned[f] <= 3

\* ---- claims on records without formulas
\* the records of a training subset that lack the 'formulas' key
LackFormulas(train_set) == {i \in 1..Len(train_set) : ~train_set[i].has_formulas}

\* C21: for every training subset in which some or all records lack the
\* 'formulas' key, each such record is skipped, the remaining records are
\* scored, and neither measurePrecomputedResolution nor the search that reads
\* the first row of its result aborts.
C21_MissingFormulasTolerated ==
    (objective.kind = "rescore" /\ opc # "start"
        /\ LackFormulas(objective.train_set) # {}) =>
        LET run == MeasureLoop(CallLogger(NewLogger), objective.train_set, 1, tentative) IN
        /\ run.kind = "return"
        /\ Len(run.value) = Len(objective.train_set)
                              - Cardinality(LackFormulas(objective.train_set))
        /\ opc # "raised"

\* ------------------------------------------------- evaluation on a test subset
\* 100*(impro/baseline_score) if baseline_score != 0 else 0
PctImprovement(impro, baseline_score) ==
    IF baseline_score # 0 THEN (100 * impro) \div baseline_score ELSE 0

\* the row of type "baseline"; improvement and pct_improvement are None
BaselineRow(query_type, fold, baseline_score, trained) ==
    [query_type |-> query_type, fold |-> fold, score |-> baseline_score, method |-> Method,
     type |-> "baseline", has_improvement |-> FALSE, improvement |-> 0,
     pct_improvement |-> 0, weights |-> [x \in DOMAIN trained |-> 1]]

\* the row of type "weight"
WeightRow(query_type, fold, trained_score, baseline_score, trained) ==
    [query_type |-> query_type, fold |-> fold, score |-> trained_score, method |-> Method,
     type |-> "weight", has_improvement |-> TRUE,
     improvement |-> trained_score - baseline_score,
     pct_improvement |-> PctImprovement(trained_score - baseline_score, baseline_score),
     weights |-> trained]

\* a test subset has been selected for fold 0 of the first query type, and the
\* fold holds trained weights for Method
InitEvaluate ==
    /\ InitFormula
    /\ retrieval_results \in ResultLists
    /\ parameters = UniformWeights /\ logger = NewLogger
    /\ scores = NoOutcome /\ previous = NoOutcome
    /\ IdleDoc /\ IdleOpt({RescoreObjective(<<>>, m) : m \in MetricNames})
    /\ python = 3
    /\ numfolds = 2
    /\ group_sizes = EmptyDict
    /\ tpc = "evaluate"
    /\ split_fold = 0
    /\ group = 0
    /\ fold_weights = EmptyDict
    /\ \E w \in [Fields -> FieldWeightValues] :
           best_weights = DictSet(EmptyDict, 0,
                              DictSet(EmptyDict, Item(train_weights_for, 0),
                                  DictSet(EmptyDict, Method, w)))
    /\ selection = NoOutcome
    /\ results = <<>>
    /\ fold_results = <<>>

\* one turn of "for method in weights[query_type]" on the test subset
EvaluateMethod ==
    LET query_type == Item(train_weights_for, group)
        test_set == retrieval_results
        trained == best_weights[split_fold][query_type][Method]
        weights_baseline == addExtraWeights(UniformWeights)
        base == MeasuredScore(test_set, objective.metric, weights_baseline)
        this == MeasuredScore(test_set, objective.metric, trained)
        baseline_row == BaselineRow(query_type, split_fold, base.value, trained)
    IN
    /\ tpc = "evaluate"
    /\ IF base.kind = "raise"
       THEN tpc' = "raised" /\ results' = results
       ELSE IF this.kind = "raise"
       THEN tpc' = "raised" /\ results' = Append(results, baseline_row)
       ELSE /\ tpc' = "evaluated"
            /\ results' = Append(Append(results, baseline_row),
                                 WeightRow(query_type, split_fold, this.value,
                                           base.value, trained))
    /\ UNCHANGED <<fvars, last_op, dvars, mvars, ovars, python, numfolds, group_sizes, split_fold,
                   group, fold_weights, best_weights, selection, fold_results>>

SpecEvaluate == InitEvaluate /\ [][EvaluateMethod]_vars

\* the two rows the claim describes for the unit under evaluation
RowsAsClaimed ==
    LET query_type == Item(train_weights_for, group)
        trained == best_weights[split_fold][query_type][Method]
        base == MeasuredScore(retrieval_results, objective.metric, UniformWeights)
        this == MeasuredScore(retrieval_results, objective.metric, trained)
    IN
    /\ base.kind = "return" /\ this.kind = "return"
    /\ Len(results) = 2
    /\ results[1].type = "baseline" /\ results[2].type = "weight"
    /\ \A i \in 1..2 : /\ results[i].fold = split_fold
                       /\ results[i].query_type = query_type
                       /\ results[i].method = Method
    /\ results[1].score = base.value
    /\ results[1].weights = UniformWeights
    /\ results[2].score = this.value
    /\ results[2].weights = trained
    /\ results[2].improvement = this.value - base.value
    /\ results[2].pct_improvement =
           IF base.value = 0 THEN 0 ELSE (100 * (this.value - base.value)) \div base.value
    /\ (objective.metric = "avg_mrr" /\ 2 * base.value = Scale /\ this.value = Scale)
           => results[2].pct_improvement = 100

\* C22: for every fold, method and query type that is not skipped, the test
\* pass emits one 'baseline' row scored with every weight 1 and one 'weight'
\* row scored with the fold's trained weights, both on the same test subset,
\* with improvement = weight score - baseline score and pct_improvement =
\* 100 * improvement / baseline score (0 when the baseline score is 0); a
\* baseline average MRR of 0.5 and a trained one of 1.0 give pct_improvement 100.
C22_TestRows ==
    tpc # "evaluate" => tpc = "evaluated" /\ RowsAsClaimed

------------------------------------------------------------------------
\* The configured step sizes

\* 'movements' lists a training configuration may hold when dynamicWeightValues is called
ConfiguredMovements == {<<-1, 6, -2>>, <<-1, 3>>, <<2, -1>>}

\* self.exp["movements"] as the sweep reads it: line 49 assigns the list
\* whatever the configuration held
SweepMovements(configured) == movements

\* the position of the trial after this one: weight names innermost, step
\* sizes in list order, then the next sweep
NextPosition(steps) ==
    IF index + 1 < Len(WeightNames) THEN <<direction, index + 1>>
    ELSE IF direction < Len(steps) THEN <<direction + 1, 0>>
    ELSE <<1, 0>>

\* C23: the optimizer applies the step sizes of the configured 'movements'
\* list in the configured order, and for each step size visits the weight
\* names in insertion order; a 'movements' value supplied in the training
\* configuration is the one the sweep uses.
C23_ConfiguredMovements ==
    [][(trials' = trials + 1 /\ opc' # "raised") =>
        \A configured \in ConfiguredMovements :
            /\ SweepMovements(configured) = configured
            /\ direction \in 1..Len(configured)
            /\ trial'.delta = configured[direction]
            /\ trial'.weight_name = Item(WeightNames, index)
            /\ <<direction', index'>> = NextPosition(configured)]_vars

------------------------------------------------------------------------
\* Unrecognised descriptions

\* C24: fromElasticExplanation fails with an error on every matched
\* explanation that contains a node whose description is none of 'coord',
\* 'sum of', 'product of', 'max of', a 'weight(field:term in' leaf or 'match on
\* required clause, product of'; it stores no formula for such an explanation
\* and substitutes no value for the unrecognised node.
C24_UnknownNodeFails ==
    (last_op = "fromElasticExplanation" /\ HasUnknownNode(explanation)) =>
        /\ outcome.kind = "raise"
        /\ formula = EmptyFormula

\* a parse that failed on an unrecognised node below the root
C24_Witness ==
    /\ last_op = "fromElasticExplanation"
    /\ HasUnknownNode(explanation)
    /\ explanation.explanation.desc \in CombineDescs
    /\ outcome.kind = "raise"

------------------------------------------------------------------------
\* Skipped units

\* what one call of measurePrecomputedResolution hands back for a list of
\* results: the data lines it returns (it prints nothing about a record it
\* passes over), or the exception it ends with
RescoringOutput(results_list, params) ==
    LET run == MeasureLoop(CallLogger(NewLogger), results_list, 1, params) IN
    IF run.kind = "return" THEN Return(DataLines(run.value)) ELSE run

\* C25: every unit a run skips (a query group with zero or too few results, a
\* record without formulas, a query with no candidates) is observable in what
\* the run returns or reports: the number of skipped units can be read from
\* its output, so two runs with the same output skipped the same number.
C25_SkipsObservable ==
    (last_op = "measurePrecomputedResolution" /\ scores.kind = "return") =>
        \A other \in ResultLists :
            RescoringOutput(other, parameters) = scores =>
                Cardinality(LackFormulas(other)) = Cardinality(LackFormulas(retrieval_results))

------------------------------------------------------------------------
\* Searches run one after another

\* number of searches one run makes (query types x methods x folds)
MaxUnits == 3

\* the training subsets and metrics of the searches of one run
UnitObjectives ==
    {PeaksObjective([f \in Fields |-> IF f = g THEN 4 ELSE 0]) : g \in Fields}
        \cup {TableObjective([c \in TableCells |-> IF c = <<2, 0>> THEN 1 ELSE 0])}
        \cup {RescoreObjective(ts, "avg_mrr") : ts \in {<<r>> : r \in {x \in Results : x.citation_id = "c5"}}}

InitUnits == InitFormula /\ InitMeasure({<<>>}) /\ IdleTrain /\ IdleDoc /\ IdleOpt(UnitObjectives)

\* the next turn of "for method in annotated_boost_methods" or of "for
\* query_type in ..." begins: the locals and the method table keep what the
\* search before left in them
NextUnit ==
    \E next \in UnitObjectives :
        /\ opc = "done"
        /\ Len(units) + 1 < MaxUnits
        /\ units' = Append(units, [objective |-> objective, smooth_weights |-> smooth_weights,
                                   returned |-> returned])
        /\ objective' = next
        /\ opc' = "start"
        /\ trial' = NoTrial
        /\ trials' = 0
        /\ UNCHANGED <<fvars, last_op, dvars, mvars, tvars, weights, tentative, score_baseline,
                       previous_score, first_baseline, this_score, overall_improvement,
                       passes, direction, index, sweep_start, smooth_weights, returned,
                       runtime_parameters, GLOBAL_FILE_COUNTER>>

NextUnits == NextOpt \/ NextUnit

SpecUnits == InitUnits /\ [][NextUnits]_vars

------------------------------------------------------------------------
\* SciDoc: building a document

\* elements, citations and references added to one document
MaxElements == 3

SENTENCE_TYPES == {"s", "fig-caption", "s-li"}
PARAGRAPH_TYPES == {"p", "footnote", "p-li"}
SECTION_TYPES == {"section"}

\* "s" + str(n), "p" + str(n), "sect" + str(n), "cit" + str(n), "ref" + str(n)
MakeId(prefix, n) == <<prefix, n>>

RootId == <<"root", 0>>
NoneId == <<"None", 0>>
NoId == <<"", 0>>

Headers == {"Methods", "Abstract"}

\* str.lower
Lower(header) ==
    CASE header = "Methods" -> "methods"
      [] header = "Abstract" -> "abstract"
      [] OTHER -> header

\* a new element dict; has_content tells whether it has a "content" key
NewElement(type, header, parent, has_content) ==
    [type |-> type, id |-> NoId, header |-> header, parent |-> parent,
     has_content |-> has_content, content |-> <<>>]

\* processSingleElement(element), element being data["content"][i - 1]
processSingleElement(d, i) ==
    LET element == d.content[i] IN
    [d EXCEPT
        !.allsentences = IF element.type \in SENTENCE_TYPES THEN Append(@, i) ELSE @,
        !.allparagraphs = IF element.type \in PARAGRAPH_TYPES THEN Append(@, i) ELSE @,
        !.allsections = IF element.type \in SECTION_TYPES THEN Append(@, i) ELSE @,
        !.element_by_id = DictSet(@, element.id, i)]

\* the id addElement gives an element
NewId(d, type) ==
    IF type \in SECTION_TYPES THEN MakeId("sect", Len(d.allsections))
    ELSE IF type \in PARAGRAPH_TYPES THEN MakeId("p", Len(d.allparagraphs))
    ELSE IF type \in SENTENCE_TYPES THEN MakeId("s", Len(d.allsentences))
    ELSE NoId

\* the document after addElement(element).  The element is appended to
\* data["content"] before its parent is looked up, so a call that raises
\* KeyError (no element has the parent's id, or the parent has no "content")
\* leaves it there, in none of the lists and dicts.
addElement(d, element) ==
    LET withid == [element EXCEPT !.id = NewId(d, element.type)]
        i == Len(d.content) + 1
        appended == [d EXCEPT !.content = Append(@, withid)]
    IN  IF withid.parent = RootId THEN processSingleElement(appended, i)
        ELSE IF withid.parent \notin DOMAIN d.element_by_id THEN appended
        ELSE LET p == d.element_by_id[withid.parent] IN
             IF ~d.content[p].has_content THEN appended
             ELSE processSingleElement(
                      [appended EXCEPT !.content[p].content = Append(@, withid.id)], i)

RECURSIVE ProcessElements(_, _)
ProcessElements(d, i) ==
    IF i > Len(d.content) THEN d
    ELSE ProcessElements(processSingleElement(d, i), i + 1)

\* the loop over data["citations"] in updateReferences
RECURSIVE LinkCitations(_, _)
LinkCitations(d, k) ==
    IF k > Len(d.citations) THEN d
    ELSE
        LET cit == d.citations[k]
            known == [d EXCEPT !.citation_by_id = DictSet(@, cit.id, k)]
            r == IF cit.ref_id \in DOMAIN d.reference_by_id
                 THEN d.reference_by_id[cit.ref_id] ELSE 0
            linked ==
                IF cit.ref_id = NoneId \/ r = 0 THEN known
                ELSE IF \E j \in 1..Len(d.references[r].citations) :
                            d.references[r].citations[j] = cit.id
                     THEN known
                     ELSE [known EXCEPT !.references[r].citations = Append(@, cit.id)]
        IN  LinkCitations(linked, k + 1)

updateReferences(d) ==
    LET refs == d.references
        indexed == [d EXCEPT
            !.citation_by_id = EmptyDict,
            !.reference_by_id =
                [id \in {refs[j].id : j \in {j \in 1..Len(refs) : refs[j].type = "reference"}} |->
                    CHOOSE j \in 1..Len(refs) :
                        /\ refs[j].id = id /\ refs[j].type = "reference"
                        /\ \A j2 \in 1..Len(refs) :
                               (refs[j2].id = id /\ refs[j2].type = "reference") => j2 <= j]]
    IN  LinkCitations(indexed, 1)

\* the section the first loop of updateContentLists leaves in abstract
AbstractByHeader(d) ==
    LET hits == {k \in 1..Len(d.allsections) :
                    Lower(d.content[d.allsections[k]].header) = "abstract"}
    IN  IF hits = {} THEN 0
        ELSE d.allsections[CHOOSE k \in hits : \A k2 \in hits : k2 <= k]

\* the document after updateContentLists()
updateContentLists(d) ==
    LET cleared == [d EXCEPT !.allsentences = <<>>, !.allparagraphs = <<>>,
                             !.allsections = <<>>, !.element_by_id = EmptyDict,
                             !.abstract = 0, !.citation_by_id = EmptyDict,
                             !.reference_by_id = EmptyDict]
        listed == ProcessElements(cleared, 1)
        byheader == [listed EXCEPT !.abstract = AbstractByHeader(listed)]
        first == IF Len(listed.allsections) > 0
                 THEN [byheader EXCEPT !.abstract = listed.allsections[1]]
                 ELSE byheader
    IN  updateReferences(first)

DocSize == Len(doc.content) + Len(doc.citations) + Len(doc.references)

\* parent ids a caller passes: the root, the id of an element of the
\* document, or an id that no element of the document has
Parents == {RootId} \cup DOMAIN doc.element_by_id \cup {MakeId("p", Len(doc.allparagraphs))}

DocFrame == UNCHANGED <<fvars, mvars, tvars, ovars>>

addSection ==
    \E parent \in Parents \cup {NoneId}, header \in Headers :
        /\ DocSize < MaxElements
        /\ doc' = addElement(doc, NewElement("section", header,
                                  IF parent = NoneId THEN RootId ELSE parent, TRUE))
        /\ last_op' = "addSection"
        /\ DocFrame

addParagraph ==
    \E parent \in Parents :
        /\ DocSize < MaxElements
        /\ doc' = addElement(doc, NewElement("p", "", parent, TRUE))
        /\ last_op' = "addParagraph"
        /\ DocFrame

addSentence ==
    \E parent \in Parents :
        /\ DocSize < MaxElements
        /\ doc' = addElement(doc, NewElement("s", "", parent, FALSE))
        /\ last_op' = "addSentence"
        /\ DocFrame

addCitation ==
    \E sent_id \in {NoneId} \cup {doc.content[doc.allsentences[k]].id : k \in 1..Len(doc.allsentences)},
       ref_id \in {NoneId} \cup DOMAIN doc.reference_by_id :
        LET newCitation == [id |-> MakeId("cit", Len(doc.citations)),
                            parent_s |-> sent_id, ref_id |-> ref_id]
        IN
        /\ DocSize < MaxElements
        /\ doc' = [doc EXCEPT
                      !.citations = Append(@, newCitation),
                      !.citation_by_id = DictSet(@, newCitation.id, Len(doc.citations) + 1)]
        /\ last_op' = "addCitation"
        /\ DocFrame

\* the reference dict both addReference and addExistingReference append
NewReference(title) ==
    [type |-> "reference", id |-> MakeId("ref", Len(doc.references)),
     title |-> title, citations |-> <<>>]

addReference ==
    /\ DocSize < MaxElements
    /\ doc' = [doc EXCEPT
                  !.references = Append(@, NewReference("")),
                  !.reference_by_id = DictSet(@, NewReference("").id, Len(doc.references) + 1)]
    /\ last_op' = "addReference"
    /\ DocFrame

\* existing_reference: a parsed reference that carries an id, a type and
\* citations of its own, all three overwritten in the copy
addExistingReference ==
    \E existing_reference \in {[type |-> "book", id |-> MakeId("ref", 0), title |-> "parsed",
                                citations |-> <<MakeId("cit", 0)>>]} :
        /\ DocSize < MaxElements
        /\ doc' = [doc EXCEPT
                      !.references = Append(@, NewReference(existing_reference.title)),
                      !.reference_by_id = DictSet(@, NewReference("").id, Len(doc.references) + 1)]
        /\ last_op' = "addExistingReference"
        /\ DocFrame

updateContentListsCall ==
    /\ doc' = updateContentLists(doc)
    /\ last_op' = "updateContentLists"
    /\ DocFrame

InitSciDoc ==
    InitFormula /\ InitMeasure({<<>>}) /\ IdleTrain /\ IdleDoc /\ IdleOpt({NoOutcome})

NextSciDoc ==
    \/ addSection \/ addParagraph \/ addSentence
    \/ addCitation \/ addReference \/ addExistingReference
    \/ updateContentListsCall

SpecSciDoc == InitSciDoc /\ [][NextSciDoc]_vars

IdsDistinct(objects) ==
    \A i, j \in 1..Len(objects) : objects[i].id = objects[j].id => i = j

IndexedById(objects, by_id) ==
    \A i \in 1..Len(objects) :
        objects[i].id \in DOMAIN by_id /\ objects[by_id[objects[i].id]] = objects[i]

ListedOnceInParent(element) ==
    element.parent # RootId =>
        /\ element.parent \in DOMAIN doc.element_by_id
        /\ LET parent == doc.content[doc.element_by_id[element.parent]] IN
           Cardinality({k \in 1..Len(parent.content) : parent.content[k] = element.id}) = 1

\* C27: in a SciDoc built from empty by any sequence of addSection,
\* addParagraph, addSentence, addCitation, addReference and
\* addExistingReference calls, every element, citation and reference has an id
\* distinct from every other, element_by_id, citation_by_id and
\* reference_by_id map each id to the object that carries it, and the id of
\* every element that is not at the root appears exactly once in its parent's
\* content list.
C27_DocumentIndex ==
    /\ IdsDistinct(doc.content) /\ IdsDistinct(doc.citations) /\ IdsDistinct(doc.references)
    /\ IndexedById(doc.content, doc.element_by_id)
    /\ IndexedById(doc.citations, doc.citation_by_id)
    /\ IndexedById(doc.references, doc.reference_by_id)
    /\ \A i \in 1..Len(doc.content) : ListedOnceInParent(doc.content[i])

\* C28: after updateContentLists the abstract is the section whose header is
\* 'abstract' in any letter case when there is one, the first section only
\* when no section has that header, and empty when there is no section.
C28_AbstractSection ==
    last_op = "updateContentLists" =>
        LET sections == doc.allsections
            named == {k \in 1..Len(sections) :
                         Lower(doc.content[sections[k]].header) = "abstract"}
        IN  IF named # {} THEN doc.abstract \in {sections[k] : k \in named}
            ELSE IF Len(sections) > 0 THEN doc.abstract = sections[1]
            ELSE doc.abstract = 0

------------------------------------------------------------------------
\* The score held by the search

\* C29: throughout the sweep loop, after each accept-or-revert decision
\* previous_score is the metric of the vector held; previous_score never
\* decreases, so the score recomputed from the final weights is at least the
\* initial all-ones baseline and the reported training improvement is never
\* negative.
C29_ScoreHeld ==
    /\ opc \in {"sweep", "end_sweep", "final", "done"} =>
           /\ previous_score = Objective(objective, addExtraWeights(weights)).value
           /\ previous_score >= first_baseline
           /\ trial.run => previous_score >= trial.previous_score
    /\ opc = "done" =>
           /\ this_score >= first_baseline
           /\ Improvement(this_score, first_baseline) >= 0

\* a finished search that raised the score and whose last trial was undone
C29_Witness ==
    /\ opc = "done"
    /\ trial.run
    /\ weights = trial.before
    /\ weights # UniformWeights
    /\ this_score > first_baseline
    /\ Improvement(this_score, first_baseline) > 0

\* the vectors one move away from w
SingleMoves(w) ==
    {[w EXCEPT ![f] = Max(MIN_WEIGHT, w[f] + movements[d])] :
        f \in DOMAIN w, d \in 1..Len(movements)}

\* C30: when the sweep loop exits the final vector is a local optimum for the
\* move set: the last sweep accepted no change, so replacing any one weight
\* by max(0, weight + step), for any step size of movements, does not give a
\* strictly greater training metric than the final vector's.
C30_LocalOptimum ==
    opc = "final" =>
        /\ weights = sweep_start
        /\ \A moved \in SingleMoves(weights) :
               Objective(objective, addExtraWeights(moved)).value
                   <= Objective(objective, addExtraWeights(weights)).value

====
